---- MODULE Spec2Model ----
(***************************************************************************)
(* Library Management System: the availability accounting and the          *)
(* checkout / return / delete state machine over the books, borrowers and  *)
(* borrowings tables.                                                      *)
(*                                                                         *)
(* The repository carries two generations of its service layer.  Both are  *)
(* modelled, each function as its own action:                              *)
(*   BorrowingService.js   checkoutBook / returnBook   (stored counter)    *)
(*   part_012              checkoutBook / returnBook   (ledger recompute)  *)
(*   BookService.js        updateBook                  (recompute)         *)
(*   part_010              updateBook                  (no recompute)      *)
(* All of them run against BookRepository.js, BorrowingRepository.js and   *)
(* BorrowerRepository.js and the tables of migration.sql.                  *)
(*                                                                         *)
(* Spec      every handler is one atomic action (requests one at a time).  *)
(* SpecConc  handlers of part_012 / BookService.js / part_011 advance one  *)
(*           store call (one await) at a time, so requests interleave.     *)
(*           It starts from tables that hold books and borrowers.          *)
(* SpecEmail registerBorrower / updateBorrower of part_011, one store call  *)
(*           at a time, from an empty borrowers table.                     *)
(* SpecQuery the read-only listings over a ledger that checkouts, returns   *)
(*           and the clock build up.                                       *)
(* SpecHttp  GET /api/borrowings/overdue as BorrowingController answers it. *)
(* SpecFault part_012 checkoutBook / returnBook with a store whose calls    *)
(*           can throw (connection lost, timeout).                         *)
(* SpecSeed  Seeder.seedAll (both generations of seeder.js) on the empty    *)
(*           tables and again later, with returns in between.              *)
(* SpecCan   canCheckoutBook of both generations next to the checkouts and  *)
(*           returns, handlers one at a time.                              *)
(* SpecDates the derived fields of one borrowing (isOverdue, daysOverdue,  *)
(*           status); here instants are milliseconds (Date.getTime()).     *)
(***************************************************************************)
EXTENDS Integers, FiniteSets, Sequences, TLC

\* ---- bounds of the model ------------------------------------------------
MaxBooks == 2
MaxBorrowers == 1
MaxBorrowings == 2
MaxQty == 2
MaxDay == 1
MaxReqs == 2
MaxOverdueDays == 10
MaxRegistered == 2
MaxSeedRows == 8

\* ---- program constants --------------------------------------------------
LOAN_PERIOD_DAYS == 14

\* Borrowing.getDaysOverdue: 1000 * 3600 * 24
MS_PER_DAY == 86400000

\* BorrowingController.getOverdueBooks: limit || 10
DEFAULT_LIMIT == 10

\* return_date IS NULL (migration.sql: "return_date" DATE, nullable)
Null == -1

VARIABLES
  books,            \* table books:      id -> [totalQuantity, availableQuantity]
  borrowers,        \* table borrowers:  id -> [email]
  borrowings,       \* table borrowings: id -> [borrowerId, bookId, checkoutDate, dueDate, returnDate]
  nextBookId,       \* books.id SERIAL
  nextBorrowerId,   \* borrowers.id SERIAL
  nextBorrowingId,  \* borrowings.id SERIAL
  now,              \* the wall clock, in days (new Date())
  last,             \* the handler that completed last and what it answered
  reqs,             \* SpecConc: the requests in flight, slot -> position and locals
  listing           \* SpecQuery: the last overdue query, its options and the rows it returned

vars == <<books, borrowers, borrowings, nextBookId, nextBorrowerId,
          nextBorrowingId, now, last, reqs, listing>>

Max(a, b) == IF a >= b THEN a ELSE b

\* ---- inputs ---------------------------------------------------------------
\* 0 stands for a missing / falsy identifier (undefined, null, 0, NaN)
BorrowerIds == 0 .. MaxBorrowers
BookIds == 0 .. MaxBooks
BorrowingIds == 0 .. MaxBorrowings
Quantities == 0 .. MaxQty
Emails == {"a@x.io", "A@x.io", "b@x.io", "bad"}

\* Borrower.normalizeEmail: toLowerCase().trim()
normalizeEmail(e) == IF e = "A@x.io" THEN "a@x.io" ELSE e

\* Borrower.isValidEmail / BorrowerService._isValidEmail: /^[^\s@]+@[^\s@]+\.[^\s@]+$/
isValidEmail(e) == e \in {"a@x.io", "A@x.io", "b@x.io"}

\* ---- repositories -------------------------------------------------------

\* BorrowingRepository.findByBook(bookId, {activeOnly: true}) over a ledger
findByBookActive(ledger, bookId) ==
  {i \in DOMAIN ledger : ledger[i].bookId = bookId /\ ledger[i].returnDate = Null}

\* BorrowingRepository.findByBorrower(borrowerId, {activeOnly: true})
findByBorrowerActive(ledger, borrowerId) ==
  {i \in DOMAIN ledger : ledger[i].borrowerId = borrowerId /\ ledger[i].returnDate = Null}

\* a foreign key that lets the referenced row go (no ON DELETE RESTRICT)
restrictsBookDelete_off(ledger, bookId) == FALSE

\* borrowings_book_id_fkey ... ON DELETE RESTRICT: a book that any ledger row
\* references, returned or not, cannot be deleted
restrictsBookDelete(ledger, bookId) ==
  \E i \in DOMAIN ledger : ledger[i].bookId = bookId

\* borrowings_borrower_id_fkey ... ON DELETE RESTRICT
restrictsBorrowerDelete(ledger, borrowerId) ==
  \E i \in DOMAIN ledger : ledger[i].borrowerId = borrowerId

\* calculateDueDate that sets the day to the loan period instead of adding it
calculateDueDate_setsDay(checkoutDate) == LOAN_PERIOD_DAYS

\* Borrowing.calculateDueDate
calculateDueDate(checkoutDate) == checkoutDate + LOAN_PERIOD_DAYS

\* BorrowingRepository.create: the row it inserts
newBorrowing(borrowerId, bookId, today) ==
  [borrowerId |-> borrowerId, bookId |-> bookId, checkoutDate |-> today,
   dueDate |-> calculateDueDate(today), returnDate |-> Null]

\* BorrowingRepository.update that writes returnDate on every row
BorrowingRepository_update_allRows(ledger, id, updateData) ==
  IF id \notin DOMAIN ledger THEN ledger
  ELSE [i \in DOMAIN ledger |-> [ledger[i] EXCEPT !.returnDate =
          IF "returnDate" \in DOMAIN updateData THEN updateData.returnDate ELSE @]]

\* BorrowingRepository.update that removes the row it is given
BorrowingRepository_update_deletesRow(ledger, id, updateData) ==
  [i \in DOMAIN ledger \ {id} |-> ledger[i]]

\* BorrowingRepository.update that copies dueDate as well as returnDate
BorrowingRepository_update_withDueDate(ledger, id, updateData) ==
  IF id \notin DOMAIN ledger THEN ledger
  ELSE [ledger EXCEPT
          ![id].returnDate =
             IF "returnDate" \in DOMAIN updateData THEN updateData.returnDate ELSE @,
          ![id].dueDate =
             IF "dueDate" \in DOMAIN updateData THEN updateData.dueDate ELSE @]

\* BorrowingRepository.update(id, updateData): only returnDate is ever written
BorrowingRepository_update(ledger, id, updateData) ==
  IF id \notin DOMAIN ledger THEN ledger
  ELSE [ledger EXCEPT ![id].returnDate =
          IF "returnDate" \in DOMAIN updateData THEN updateData.returnDate ELSE @]

\* BookRepository.update(id, updateData): copies title, author, isbn,
\* totalQuantity and shelfLocation into the UPDATE; availableQuantity is not copied
BookRepository_update(bks, id, updateData) ==
  IF id \notin DOMAIN bks THEN bks
  ELSE [bks EXCEPT ![id].totalQuantity =
          IF "totalQuantity" \in DOMAIN updateData THEN updateData.totalQuantity ELSE @]

\* BookRepository.updateAvailability(id): max(0, totalQuantity - active borrowings)
availabilityOf(bks, ledger, id) ==
  Max(0, bks[id].totalQuantity - Cardinality(findByBookActive(ledger, id)))

\* updateAvailability recomputing every book
BookRepository_updateAvailability_everyBook(bks, ledger, id) ==
  [j \in DOMAIN bks |-> [bks[j] EXCEPT !.availableQuantity = availabilityOf(bks, ledger, j)]]

BookRepository_updateAvailability(bks, ledger, id) ==
  IF id \notin DOMAIN bks THEN bks
  ELSE [bks EXCEPT ![id].availableQuantity = availabilityOf(bks, ledger, id)]

\* remove a row
without(table, id) == [k \in DOMAIN table \ {id} |-> table[k]]

\* no query answered yet
NoListing == [asOfDate |-> Null, limit |-> 0, offset |-> 0, rows |-> <<>>]

\* ---- initial state: empty tables ----------------------------------------
Init ==
  /\ books = <<>>
  /\ borrowers = <<>>
  /\ borrowings = <<>>
  /\ nextBookId = 1
  /\ nextBorrowerId = 1
  /\ nextBorrowingId = 1
  /\ now = 0
  /\ last = [op |-> "none", result |-> "none", pre |-> 0]
  /\ reqs = <<>>
  /\ listing = NoListing

\* what the handler answered; pre is the availableQuantity a successful
\* checkout found on its book before it acted (0 for every other answer)
answer(op, result) == last' = [op |-> op, result |-> result, pre |-> 0]

\* ---- outcomes of the precondition checks ----------------------------------

\* checkoutBook that refuses a borrower who already holds a book
checkoutBookCheck_borrowerLimit(borrowerId, bookId) ==
  IF borrowerId = 0 \/ bookId = 0 THEN "ValidationError"
  ELSE IF borrowerId \notin DOMAIN borrowers THEN "BorrowerNotFound"
  ELSE IF bookId \notin DOMAIN books THEN "BookNotFound"
  ELSE IF books[bookId].availableQuantity <= 0 THEN "BookNotAvailable"
  ELSE IF findByBorrowerActive(borrowings, borrowerId) # {} THEN "BorrowerLimitReached"
  ELSE "ok"

\* BorrowingService.js checkoutBook, lines 35-52: the stored counter decides
checkoutBookCheck(borrowerId, bookId) ==
  IF borrowerId = 0 \/ bookId = 0 THEN "ValidationError"
  ELSE IF borrowerId \notin DOMAIN borrowers THEN "BorrowerNotFound"
  ELSE IF bookId \notin DOMAIN books THEN "BookNotFound"
  ELSE IF books[bookId].availableQuantity <= 0 THEN "BookNotAvailable"
  ELSE "ok"

\* part_012 checkoutBook with the book looked up before the borrower
checkoutBookCheck_part012_bookFirst(borrowerId, bookId) ==
  IF borrowerId = 0 \/ bookId = 0 THEN "ValidationError"
  ELSE IF bookId \notin DOMAIN books THEN "BookNotFound"
  ELSE IF borrowerId \notin DOMAIN borrowers THEN "BorrowerNotFound"
  ELSE IF books[bookId].totalQuantity
            - Cardinality(findByBookActive(borrowings, bookId)) <= 0
       THEN "BookNotAvailable"
  ELSE "ok"

\* part_012 checkoutBook, lines 35-61: totalQuantity - active ledger entries decides
checkoutBookCheck_part012(borrowerId, bookId) ==
  IF borrowerId = 0 \/ bookId = 0 THEN "ValidationError"
  ELSE IF borrowerId \notin DOMAIN borrowers THEN "BorrowerNotFound"
  ELSE IF bookId \notin DOMAIN books THEN "BookNotFound"
  ELSE IF books[bookId].totalQuantity
            - Cardinality(findByBookActive(borrowings, bookId)) <= 0
       THEN "BookNotAvailable"
  ELSE "ok"

\* returnBook without the 'already returned' rule
returnBookCheck_noReturnedRule(borrowingId) ==
  IF borrowingId = 0 THEN "ValidationError"
  ELSE IF borrowingId \notin DOMAIN borrowings THEN "BorrowingNotFound"
  ELSE "ok"

\* returnBook (both generations), the checks before the write
returnBookCheck(borrowingId) ==
  IF borrowingId = 0 THEN "ValidationError"
  ELSE IF borrowingId \notin DOMAIN borrowings THEN "BorrowingNotFound"
  ELSE IF borrowings[borrowingId].returnDate # Null THEN "AlreadyReturned"
  ELSE "ok"

\* BookService._validateQuantityUpdate: borrowed is derived from the stored counter
validateQuantityUpdate(existingBook, newTotalQuantity) ==
  IF newTotalQuantity <= 0 THEN "ValidationError"
  ELSE IF newTotalQuantity < existingBook.totalQuantity - existingBook.availableQuantity
       THEN "BelowBorrowed"
  ELSE "ok"

\* updateBook (both generations), the checks before the write
updateBookCheck(id, updateData) ==
  IF id \notin DOMAIN books THEN "BookNotFound"
  ELSE IF "totalQuantity" \in DOMAIN updateData
       THEN validateQuantityUpdate(books[id], updateData.totalQuantity)
  ELSE "ok"

\* BookService.deleteBook: the guard, then BookRepository.delete under
\* borrowings_book_id_fkey ON DELETE RESTRICT
deleteBookCheck(id) ==
  IF id \notin DOMAIN books THEN "BookNotFound"
  ELSE IF findByBookActive(borrowings, id) # {} THEN "HasActiveBorrowings"
  ELSE IF restrictsBookDelete(borrowings, id) THEN "StoreError"
  ELSE "ok"

\* deleteBorrower without the active-borrowings guard
deleteBorrowerCheck_noGuard(id) ==
  IF id \notin DOMAIN borrowers THEN "BorrowerNotFound"
  ELSE IF restrictsBorrowerDelete(borrowings, id) THEN "StoreError"
  ELSE "ok"

\* BorrowerService.deleteBorrower: the guard, then BorrowerRepository.delete
\* under borrowings_borrower_id_fkey ON DELETE RESTRICT
deleteBorrowerCheck(id) ==
  IF id \notin DOMAIN borrowers THEN "BorrowerNotFound"
  ELSE IF findByBorrowerActive(borrowings, id) # {} THEN "HasActiveBorrowings"
  ELSE IF restrictsBorrowerDelete(borrowings, id) THEN "StoreError"
  ELSE "ok"

\* BorrowerService.registerBorrower: validation, findByEmail, then create
registerBorrowerCheck(email) ==
  IF ~isValidEmail(email) THEN "ValidationError"
  ELSE IF \E b \in DOMAIN borrowers : borrowers[b].email = normalizeEmail(email)
       THEN "DuplicateKey"
  ELSE "ok"

\* BorrowingService.extendDueDate (the same text in BorrowingService.js and
\* part_012), the checks before the write
extendDueDateCheck(borrowingId, extensionDays) ==
  IF borrowingId = 0 \/ extensionDays <= 0 THEN "ValidationError"
  ELSE IF borrowingId \notin DOMAIN borrowings THEN "BorrowingNotFound"
  ELSE IF borrowings[borrowingId].returnDate # Null THEN "CannotExtendReturned"
  ELSE "ok"

\* BorrowerService.updateBorrower: findById, validation, emailExists
updateBorrowerCheck(id, updateData) ==
  IF id \notin DOMAIN borrowers THEN "BorrowerNotFound"
  ELSE IF "email" \in DOMAIN updateData /\ ~isValidEmail(updateData.email)
       THEN "ValidationError"
  ELSE IF /\ "email" \in DOMAIN updateData
          /\ updateData.email # borrowers[id].email
          /\ \E b \in DOMAIN borrowers \ {id} :
                borrowers[b].email = normalizeEmail(updateData.email)
       THEN "DuplicateKey"
  ELSE "ok"

ExtensionDays == {0, 7}

BorrowerUpdateInputs == {[name |-> "n"]} \cup {[email |-> e] : e \in Emails}

UpdateInputs == {[title |-> "t"]} \cup {[totalQuantity |-> q] : q \in Quantities}

\* ---- Spec: one handler, one action ----------------------------------------

\* BookService.createBook
createBook(totalQuantity) ==
  /\ totalQuantity > 0 => nextBookId <= MaxBooks
  /\ IF totalQuantity <= 0
     THEN /\ answer("createBook", "ValidationError")
          /\ UNCHANGED <<books, nextBookId>>
     ELSE /\ books' = books @@ (nextBookId :>
                 [totalQuantity |-> totalQuantity, availableQuantity |-> totalQuantity])
          /\ nextBookId' = nextBookId + 1
          /\ answer("createBook", "ok")
  /\ UNCHANGED <<borrowers, borrowings, nextBorrowerId, nextBorrowingId, now, reqs, listing>>

\* BorrowerService.registerBorrower
registerBorrower(email) ==
  /\ LET r == registerBorrowerCheck(email) IN
     /\ r = "ok" => nextBorrowerId <= MaxBorrowers
     /\ answer("registerBorrower", r)
     /\ IF r = "ok"
        THEN /\ borrowers' = borrowers @@ (nextBorrowerId :> [email |-> normalizeEmail(email)])
             /\ nextBorrowerId' = nextBorrowerId + 1
        ELSE UNCHANGED <<borrowers, nextBorrowerId>>
  /\ UNCHANGED <<books, borrowings, nextBookId, nextBorrowingId, now, reqs, listing>>

\* BorrowingService.js checkoutBook: check the stored counter, insert the
\* ledger row, then bookRepository.update(bookId, {availableQuantity: n - 1})
checkoutBook(borrowerId, bookId) ==
  LET r == checkoutBookCheck(borrowerId, bookId) IN
  /\ r = "ok" => nextBorrowingId <= MaxBorrowings
  /\ last' = [op |-> "checkoutBook", result |-> r,
               pre |-> IF r = "ok" THEN books[bookId].availableQuantity ELSE 0]
  /\ IF r = "ok"
     THEN /\ borrowings' = borrowings @@
                 (nextBorrowingId :> newBorrowing(borrowerId, bookId, now))
          /\ nextBorrowingId' = nextBorrowingId + 1
          /\ books' = BookRepository_update(books, bookId,
                 [availableQuantity |-> books[bookId].availableQuantity - 1])
     ELSE UNCHANGED <<borrowings, nextBorrowingId, books>>
  /\ UNCHANGED <<borrowers, nextBookId, nextBorrowerId, now, reqs, listing>>

\* part_012 checkoutBook with the ledger row inserted before the availability check
checkoutBook_part012_insertFirst(borrowerId, bookId) ==
  LET r == checkoutBookCheck_part012(borrowerId, bookId)
      inserted == r \in {"ok", "BookNotAvailable"} IN
  /\ inserted => nextBorrowingId <= MaxBorrowings
  /\ last' = [op |-> "checkoutBook_part012", result |-> r,
               pre |-> IF r = "ok" THEN books[bookId].availableQuantity ELSE 0]
  /\ IF inserted
     THEN /\ borrowings' = borrowings @@
                 (nextBorrowingId :> newBorrowing(borrowerId, bookId, now))
          /\ nextBorrowingId' = nextBorrowingId + 1
          /\ books' = IF r = "ok"
                      THEN BookRepository_updateAvailability(books, borrowings', bookId)
                      ELSE books
     ELSE UNCHANGED <<borrowings, nextBorrowingId, books>>
  /\ UNCHANGED <<borrowers, nextBookId, nextBorrowerId, now, reqs, listing>>

\* part_012 checkoutBook: check total - active, insert the ledger row, then
\* bookRepository.updateAvailability(bookId)
checkoutBook_part012(borrowerId, bookId) ==
  LET r == checkoutBookCheck_part012(borrowerId, bookId) IN
  /\ r = "ok" => nextBorrowingId <= MaxBorrowings
  /\ last' = [op |-> "checkoutBook_part012", result |-> r,
               pre |-> IF r = "ok" THEN books[bookId].availableQuantity ELSE 0]
  /\ IF r = "ok"
     THEN /\ borrowings' = borrowings @@
                 (nextBorrowingId :> newBorrowing(borrowerId, bookId, now))
          /\ nextBorrowingId' = nextBorrowingId + 1
          /\ books' = BookRepository_updateAvailability(books, borrowings', bookId)
     ELSE UNCHANGED <<borrowings, nextBorrowingId, books>>
  /\ UNCHANGED <<borrowers, nextBookId, nextBorrowerId, now, reqs, listing>>

\* BorrowingService.js returnBook: set returnDate, then
\* bookRepository.update(bookId, {availableQuantity: n + 1}) if the book exists
returnBook(borrowingId) ==
  LET r == returnBookCheck(borrowingId) IN
  /\ answer("returnBook", r)
  /\ IF r = "ok"
     THEN LET bookId == borrowings[borrowingId].bookId IN
          /\ borrowings' = BorrowingRepository_update(borrowings, borrowingId,
                                                      [returnDate |-> now])
          /\ books' = IF bookId \in DOMAIN books
                      THEN BookRepository_update(books, bookId,
                             [availableQuantity |-> books[bookId].availableQuantity + 1])
                      ELSE books
     ELSE UNCHANGED <<borrowings, books>>
  /\ UNCHANGED <<borrowers, nextBookId, nextBorrowerId, nextBorrowingId, now, reqs, listing>>

\* part_012 returnBook: set returnDate, then bookRepository.updateAvailability(bookId)
returnBook_part012(borrowingId) ==
  LET r == returnBookCheck(borrowingId) IN
  /\ answer("returnBook_part012", r)
  /\ IF r = "ok"
     THEN LET bookId == borrowings[borrowingId].bookId IN
          /\ borrowings' = BorrowingRepository_update(borrowings, borrowingId,
                                                      [returnDate |-> now])
          /\ books' = BookRepository_updateAvailability(books, borrowings', bookId)
     ELSE UNCHANGED <<borrowings, books>>
  /\ UNCHANGED <<borrowers, nextBookId, nextBorrowerId, nextBorrowingId, now, reqs, listing>>

\* BookService.js updateBook: validate, bookRepository.update, and after a
\* totalQuantity edit updateBookAvailability(id)
updateBook(id, updateData) ==
  LET r == updateBookCheck(id, updateData) IN
  /\ answer("updateBook", r)
  /\ IF r = "ok"
     THEN books' = IF "totalQuantity" \in DOMAIN updateData
                      THEN BookRepository_updateAvailability(
                             BookRepository_update(books, id, updateData), borrowings, id)
                      ELSE BookRepository_update(books, id, updateData)
     ELSE UNCHANGED books
  /\ UNCHANGED <<borrowers, borrowings, nextBookId, nextBorrowerId, nextBorrowingId, now, reqs, listing>>

\* part_010 updateBook: validate, bookRepository.update, nothing else
updateBook_part010(id, updateData) ==
  LET r == updateBookCheck(id, updateData) IN
  /\ answer("updateBook_part010", r)
  /\ IF r = "ok"
     THEN books' = BookRepository_update(books, id, updateData)
     ELSE UNCHANGED books
  /\ UNCHANGED <<borrowers, borrowings, nextBookId, nextBorrowerId, nextBorrowingId, now, reqs, listing>>

\* BookService.deleteBook (the same text in BookService.js and part_010)
deleteBook(id) ==
  LET r == deleteBookCheck(id) IN
  /\ answer("deleteBook", r)
  /\ IF r = "ok"
     THEN books' = without(books, id)
     ELSE UNCHANGED books
  /\ UNCHANGED <<borrowers, borrowings, nextBookId, nextBorrowerId, nextBorrowingId, now, reqs, listing>>

\* BorrowerService.deleteBorrower
deleteBorrower(id) ==
  LET r == deleteBorrowerCheck(id) IN
  /\ answer("deleteBorrower", r)
  /\ borrowers' = IF r = "ok" THEN without(borrowers, id) ELSE borrowers
  /\ UNCHANGED <<books, borrowings, nextBookId, nextBorrowerId, nextBorrowingId, now, reqs, listing>>

\* BorrowingService.extendDueDate: borrowingRepository.update(borrowingId,
\* {dueDate: newDueDate})
extendDueDate(borrowingId, extensionDays) ==
  LET r == extendDueDateCheck(borrowingId, extensionDays) IN
  /\ answer("extendDueDate", r)
  /\ borrowings' = IF r = "ok"
                    THEN BorrowingRepository_update(borrowings, borrowingId,
                           [dueDate |-> borrowings[borrowingId].dueDate + extensionDays])
                    ELSE borrowings
  /\ UNCHANGED <<books, borrowers, nextBookId, nextBorrowerId, nextBorrowingId, now, reqs, listing>>

\* BorrowerService.updateBorrower: BorrowerRepository.update writes name and
\* the normalised email
updateBorrower(id, updateData) ==
  LET r == updateBorrowerCheck(id, updateData) IN
  /\ answer("updateBorrower", r)
  /\ borrowers' = IF r = "ok" /\ "email" \in DOMAIN updateData
                   THEN [borrowers EXCEPT ![id].email = normalizeEmail(updateData.email)]
                   ELSE borrowers
  /\ UNCHANGED <<books, borrowings, nextBookId, nextBorrowerId, nextBorrowingId, now, reqs, listing>>

\* the clock moves on
Tick ==
  /\ now < MaxDay
  /\ now' = now + 1
  /\ UNCHANGED <<books, borrowers, borrowings, nextBookId, nextBorrowerId,
                 nextBorrowingId, last, reqs, listing>>

Next ==
  \/ \E q \in Quantities : createBook(q)
  \/ \E e \in Emails : registerBorrower(e)
  \/ \E b \in BorrowerIds, k \in BookIds : checkoutBook(b, k)
  \/ \E b \in BorrowerIds, k \in BookIds : checkoutBook_part012(b, k)
  \/ \E i \in BorrowingIds : returnBook(i)
  \/ \E i \in BorrowingIds : returnBook_part012(i)
  \/ \E k \in BookIds, d \in UpdateInputs : updateBook(k, d)
  \/ \E k \in BookIds, d \in UpdateInputs : updateBook_part010(k, d)
  \/ \E k \in BookIds : deleteBook(k)
  \/ \E b \in BorrowerIds : deleteBorrower(b)
  \/ \E i \in BorrowingIds, d \in ExtensionDays : extendDueDate(i, d)
  \/ \E b \in BorrowerIds, d \in BorrowerUpdateInputs : updateBorrower(b, d)
  \/ Tick

Spec == Init /\ [][Next]_vars

\* ---- properties of Spec -----------------------------------------------------

activeCount(bookId) == Cardinality(findByBookActive(borrowings, bookId))

checkoutStep(b, k) == checkoutBook(b, k) \/ checkoutBook_part012(b, k)
returnStep(i) == returnBook(i) \/ returnBook_part012(i)

CheckoutOps == {"checkoutBook", "checkoutBook_part012"}
ReturnOps == {"returnBook", "returnBook_part012"}
CheckoutRejections == {"ValidationError", "BorrowerNotFound", "BookNotFound", "BookNotAvailable"}

\* C1: every book's stored availableQuantity equals its totalQuantity minus
\* the number of its borrowings with returnDate = null.
C1_AvailableIsTotalMinusActive ==
  \A k \in DOMAIN books :
    books[k].availableQuantity = books[k].totalQuantity - activeCount(k)

\* C2: every book satisfies 0 <= availableQuantity <= totalQuantity.
C2_AvailableWithinTotal ==
  \A k \in DOMAIN books :
    0 <= books[k].availableQuantity /\ books[k].availableQuantity <= books[k].totalQuantity

\* C3: a checkout of a book with exactly one available copy succeeds, and a
\* checkout of a book all of whose copies are on loan (no return since the
\* last copy went out) is answered BookNotAvailable.
C3_LastCopyThenNotAvailable ==
  [][\A b \in DOMAIN borrowers, k \in DOMAIN books :
       (last'.op \in CheckoutOps /\ checkoutStep(b, k)) =>
         /\ (books[k].availableQuantity = 1 /\ activeCount(k) = books[k].totalQuantity - 1)
               => last'.result = "ok"
         /\ activeCount(k) >= books[k].totalQuantity
               => last'.result = "BookNotAvailable"]_vars

\* C5: returning a borrowing whose returnDate is already set is answered
\* AlreadyReturned and changes neither the ledger nor any book.
C5_ReturnTwiceRejected ==
  [][\A i \in DOMAIN borrowings :
       (last'.op \in ReturnOps /\ borrowings[i].returnDate # Null /\ returnStep(i)) =>
         /\ last'.result = "AlreadyReturned"
         /\ borrowings' = borrowings
         /\ books' = books]_vars

C5_Witness ==
  /\ last.op \in ReturnOps
  /\ last.result = "AlreadyReturned"
  /\ \E i \in DOMAIN borrowings : borrowings[i].returnDate # Null

\* C6: a borrowing is created active, and once its returnDate is set no step
\* changes it, clears it or removes the borrowing.
C6_ReturnedIsTerminal ==
  [][/\ \A i \in DOMAIN borrowings :
          borrowings[i].returnDate # Null =>
            /\ i \in DOMAIN borrowings'
            /\ borrowings'[i].returnDate = borrowings[i].returnDate
     /\ \A i \in DOMAIN borrowings' \ DOMAIN borrowings :
          borrowings'[i].returnDate = Null]_vars

C6_Witness ==
  \E i, j \in DOMAIN borrowings :
    /\ borrowings[i].returnDate # Null
    /\ borrowings[i].returnDate < now
    /\ borrowings[j].returnDate = now
    /\ last.op \in {"returnBook", "returnBook_part012"}
    /\ last.result = "ok"

\* C7: a successful checkout directly followed by the return of the borrowing
\* it created (by the same service) leaves the book's availableQuantity at the
\* value it had before the checkout.
C7_RoundTripRestores ==
  [][\A i \in DOMAIN borrowings :
       /\ i = nextBorrowingId - 1
       /\ last.result = "ok"
       /\ last.op \in CheckoutOps
       /\ last'.op \in ReturnOps
       /\ \/ last.op = "checkoutBook" /\ returnBook(i)
          \/ last.op = "checkoutBook_part012" /\ returnBook_part012(i)
       /\ last'.result = "ok"
       => books'[borrowings[i].bookId].availableQuantity = last.pre]_vars

\* C8: a checkout answered ValidationError, BorrowerNotFound, BookNotFound or
\* BookNotAvailable adds no ledger entry and changes no book.
C8_RejectedCheckoutChangesNothing ==
  [][\A b \in BorrowerIds, k \in BookIds :
       (last'.op \in CheckoutOps /\ last'.result \in CheckoutRejections
          /\ checkoutStep(b, k)) =>
         /\ borrowings' = borrowings
         /\ books' = books]_vars

C8_Witness ==
  /\ last.op \in {"checkoutBook", "checkoutBook_part012"}
  /\ last.result = "BookNotAvailable"
  /\ \E k \in DOMAIN books : activeCount(k) >= books[k].totalQuantity

\* C9: deleting a book or a borrower that an active borrowing references is
\* answered HasActiveBorrowings and the book or borrower stays.
C9_DeleteRefusedWhileActive ==
  [][/\ \A k \in DOMAIN books :
          (last'.op = "deleteBook" /\ findByBookActive(borrowings, k) # {}
             /\ deleteBook(k)) =>
            (last'.result = "HasActiveBorrowings" /\ k \in DOMAIN books')
     /\ \A b \in DOMAIN borrowers :
          (last'.op = "deleteBorrower" /\ findByBorrowerActive(borrowings, b) # {}
             /\ deleteBorrower(b)) =>
            (last'.result = "HasActiveBorrowings" /\ b \in DOMAIN borrowers')]_vars

C9_Witness ==
  /\ last.op = "deleteBook"
  /\ last.result = "HasActiveBorrowings"
  /\ \E k \in DOMAIN books : findByBookActive(borrowings, k) # {}

\* C11: once every borrowing that references a book has been returned,
\* deleting that book succeeds and the book is gone.
C11_DeleteAfterAllReturned ==
  [][\A k \in DOMAIN books :
       (/\ last'.op = "deleteBook"
        /\ restrictsBookDelete(borrowings, k)
        /\ findByBookActive(borrowings, k) = {}
        /\ deleteBook(k)) =>
         (last'.result = "ok" /\ k \notin DOMAIN books')]_vars

C13_LedgerOnlyGrows ==
  [][DOMAIN borrowings \subseteq DOMAIN borrowings']_vars

C13_Witness ==
  /\ last.op \in {"deleteBook", "deleteBorrower"}
  /\ last.result = "StoreError"
  /\ \E i \in DOMAIN borrowings : borrowings[i].returnDate # Null

affectedBook(k) ==
  \/ \E i \in DOMAIN borrowings' \ DOMAIN borrowings : borrowings'[i].bookId = k
  \/ \E i \in DOMAIN borrowings :
       /\ i \in DOMAIN borrowings'
       /\ borrowings[i].bookId = k
       /\ borrowings[i].returnDate = Null
       /\ borrowings'[i].returnDate # Null
  \/ /\ k \in DOMAIN books
     /\ books'[k].totalQuantity # books[k].totalQuantity

\* C17: after every successful checkout, return or totalQuantity edit the
\* affected book's availableQuantity equals its totalQuantity minus the
\* number of its active borrowings, whatever was stored before.
C17_EveryWriteRecomputes ==
  [][\A k \in DOMAIN books' :
       (/\ last'.result = "ok"
        /\ last'.op \in CheckoutOps \cup ReturnOps \cup {"updateBook", "updateBook_part010"}
        /\ affectedBook(k)) =>
         books'[k].availableQuantity =
           books'[k].totalQuantity - Cardinality(findByBookActive(borrowings', k))]_vars

\* C18: after a successful edit of a book's totalQuantity its
\* availableQuantity equals the new totalQuantity minus the number of its
\* active borrowings.
C18_EditRecomputesAvailable ==
  [][\A k \in DOMAIN books :
       (/\ last'.op \in {"updateBook", "updateBook_part010"}
        /\ last'.result = "ok"
        /\ k \in DOMAIN books'
        /\ books'[k].totalQuantity # books[k].totalQuantity) =>
         books'[k].availableQuantity = books'[k].totalQuantity - activeCount(k)]_vars

\* C19: an edit that would set a book's totalQuantity (a positive number)
\* below the number of its active borrowings is rejected as below the
\* borrowed quantity and changes nothing.
C19_EditBelowLoansRejected ==
  [][\A k \in DOMAIN books, q \in Quantities :
       (/\ last'.op \in {"updateBook", "updateBook_part010"}
        /\ q >= 1
        /\ q < activeCount(k)
        /\ \/ updateBook(k, [totalQuantity |-> q])
           \/ updateBook_part010(k, [totalQuantity |-> q])) =>
         (last'.result = "BelowBorrowed" /\ books' = books)]_vars

\* C28: a successful checkout or return changes the availableQuantity of the
\* referenced book only and creates or modifies that one borrowing only; every
\* other book, every borrower and every other borrowing is left unchanged.
C28_CheckoutReturnFrame ==
  [][/\ \A b \in BorrowerIds, k \in BookIds :
          (last'.op \in CheckoutOps /\ last'.result = "ok" /\ checkoutStep(b, k)) =>
            /\ borrowers' = borrowers
            /\ DOMAIN books' = DOMAIN books
            /\ \A j \in DOMAIN books :
                 IF j = k THEN books'[j].totalQuantity = books[j].totalQuantity
                          ELSE books'[j] = books[j]
            /\ DOMAIN borrowings' = DOMAIN borrowings \cup {nextBorrowingId}
            /\ \A j \in DOMAIN borrowings : borrowings'[j] = borrowings[j]
            /\ borrowings'[nextBorrowingId].bookId = k
            /\ borrowings'[nextBorrowingId].borrowerId = b
     /\ \A i \in BorrowingIds :
          (last'.op \in ReturnOps /\ last'.result = "ok" /\ returnStep(i)) =>
            /\ borrowers' = borrowers
            /\ DOMAIN books' = DOMAIN books
            /\ \A j \in DOMAIN books :
                 IF j = borrowings[i].bookId
                   THEN books'[j].totalQuantity = books[j].totalQuantity
                   ELSE books'[j] = books[j]
            /\ DOMAIN borrowings' = DOMAIN borrowings
            /\ \A j \in DOMAIN borrowings : j # i => borrowings'[j] = borrowings[j]]_vars

C28_Witness ==
  /\ last.op \in CheckoutOps \cup ReturnOps
  /\ last.result = "ok"
  /\ Cardinality(DOMAIN books) = 2
  /\ Cardinality(DOMAIN borrowings) = 2
  /\ \E j \in DOMAIN books : \A i \in DOMAIN borrowings : borrowings[i].bookId # j

\* ---- SpecConc: one store call at a time -----------------------------------

Min(a, b) == IF a <= b THEN a ELSE b

Slots == 1 .. MaxReqs

\* a free slot
Idle == [op |-> "idle", pc |-> "idle", borrowerId |-> 0, bookId |-> 0,
         borrowingId |-> 0, seen |-> 0, result |-> "none"]

\* a request at position pc
request(op, pc, borrowerId, bookId, borrowingId, seen) ==
  [op |-> op, pc |-> pc, borrowerId |-> borrowerId, bookId |-> bookId,
   borrowingId |-> borrowingId, seen |-> seen, result |-> "none"]

\* the handler of slot r moves to pc
goto(r, pc) == reqs' = [reqs EXCEPT ![r].pc = pc]

\* the handler of slot r returns or throws
finish(r, result) == reqs' = [reqs EXCEPT ![r].pc = "done", ![r].result = result]

at(r, op, pc) == reqs[r].op = op /\ reqs[r].pc = pc

\* the tables after createBook for every book id and registerBorrower for
\* the first borrowers, nothing borrowed yet, no request in flight
InitConc ==
  /\ books \in [1 .. MaxBooks ->
                  {[totalQuantity |-> q, availableQuantity |-> q] : q \in 1 .. MaxQty}]
  /\ borrowers = [b \in 1 .. Min(MaxBorrowers, 2) |->
                    [email |-> IF b = 1 THEN "a@x.io" ELSE "b@x.io"]]
  /\ borrowings = <<>>
  /\ nextBookId = MaxBooks + 1
  /\ nextBorrowerId = Min(MaxBorrowers, 2) + 1
  /\ nextBorrowingId = 1
  /\ now = 0
  /\ last = [op |-> "registerBorrower", result |-> "ok", pre |-> 0]
  /\ reqs = [r \in Slots |-> Idle]
  /\ listing = NoListing

\* an INSERT into borrowings whose keys find no row is refused
violatesInsertKeys(bks, brs, borrowerId, bookId) ==
  borrowerId \notin DOMAIN brs \/ bookId \notin DOMAIN bks

\* part_012 checkoutBook: validation and borrowerRepository.findById
checkoutBook_part012_findBorrower(r, borrowerId, bookId) ==
  /\ reqs[r] = Idle
  /\ reqs' = [reqs EXCEPT ![r] =
       IF borrowerId = 0 \/ bookId = 0
       THEN [request("checkoutBook_part012", "done", borrowerId, bookId, 0, 0)
               EXCEPT !.result = "ValidationError"]
       ELSE IF borrowerId \notin DOMAIN borrowers
       THEN [request("checkoutBook_part012", "done", borrowerId, bookId, 0, 0)
               EXCEPT !.result = "BorrowerNotFound"]
       ELSE request("checkoutBook_part012", "findBook", borrowerId, bookId, 0, 0)]
  /\ UNCHANGED <<books, borrowers, borrowings, nextBookId, nextBorrowerId,
                 nextBorrowingId, now, last, listing>>

\* part_012 checkoutBook: bookRepository.findById, the book it keeps
checkoutBook_part012_findBook(r) ==
  /\ at(r, "checkoutBook_part012", "findBook")
  /\ IF reqs[r].bookId \notin DOMAIN books
     THEN finish(r, "BookNotFound")
     ELSE reqs' = [reqs EXCEPT ![r].pc = "findByBook",
                               ![r].seen = books[reqs[r].bookId].totalQuantity]
  /\ UNCHANGED <<books, borrowers, borrowings, nextBookId, nextBorrowerId,
                 nextBorrowingId, now, last, listing>>

\* part_012 checkoutBook: borrowingRepository.findByBook and the decision
checkoutBook_part012_findByBook(r) ==
  /\ at(r, "checkoutBook_part012", "findByBook")
  /\ IF reqs[r].seen - Cardinality(findByBookActive(borrowings, reqs[r].bookId)) <= 0
     THEN finish(r, "BookNotAvailable")
     ELSE goto(r, "create")
  /\ UNCHANGED <<books, borrowers, borrowings, nextBookId, nextBorrowerId,
                 nextBorrowingId, now, last, listing>>

\* part_012 checkoutBook: borrowingRepository.create
checkoutBook_part012_create(r) ==
  /\ at(r, "checkoutBook_part012", "create")
  /\ IF violatesInsertKeys(books, borrowers, reqs[r].borrowerId, reqs[r].bookId)
     THEN /\ finish(r, "StoreError")
          /\ UNCHANGED <<borrowings, nextBorrowingId>>
     ELSE /\ nextBorrowingId <= MaxBorrowings
          /\ borrowings' = borrowings @@ (nextBorrowingId :>
                 newBorrowing(reqs[r].borrowerId, reqs[r].bookId, now))
          /\ nextBorrowingId' = nextBorrowingId + 1
          /\ reqs' = [reqs EXCEPT ![r].pc = "availRead",
                                  ![r].borrowingId = nextBorrowingId]
  /\ UNCHANGED <<books, borrowers, nextBookId, nextBorrowerId, now, last, listing>>

\* part_012 returnBook: validation, borrowingRepository.findById, the
\* 'already returned' rule
returnBook_part012_findById(r, borrowingId) ==
  /\ reqs[r] = Idle
  /\ LET c == returnBookCheck(borrowingId) IN
     reqs' = [reqs EXCEPT ![r] =
       IF c = "ok"
       THEN request("returnBook_part012", "update", borrowings[borrowingId].borrowerId,
                    borrowings[borrowingId].bookId, borrowingId, 0)
       ELSE [request("returnBook_part012", "done", 0, 0, borrowingId, 0)
               EXCEPT !.result = c]]
  /\ UNCHANGED <<books, borrowers, borrowings, nextBookId, nextBorrowerId,
                 nextBorrowingId, now, last, listing>>

\* part_012 returnBook: borrowingRepository.update(borrowingId, {returnDate})
returnBook_part012_update(r) ==
  /\ at(r, "returnBook_part012", "update")
  /\ borrowings' = BorrowingRepository_update(borrowings, reqs[r].borrowingId,
                                              [returnDate |-> now])
  /\ goto(r, "availRead")
  /\ UNCHANGED <<books, borrowers, nextBookId, nextBorrowerId,
                 nextBorrowingId, now, last, listing>>

\* BookRepository.updateAvailability, first call: prisma.book.findUnique
\* with the active borrowings, and the quantity computed from them
updateAvailability_findUnique(r) ==
  /\ reqs[r].op \in {"checkoutBook_part012", "returnBook_part012"}
  /\ reqs[r].pc = "availRead"
  /\ IF reqs[r].bookId \notin DOMAIN books
     THEN finish(r, "ok")
     ELSE reqs' = [reqs EXCEPT ![r].pc = "availWrite",
                               ![r].seen = availabilityOf(books, borrowings, reqs[r].bookId)]
  /\ UNCHANGED <<books, borrowers, borrowings, nextBookId, nextBorrowerId,
                 nextBorrowingId, now, last, listing>>

\* BookRepository.updateAvailability, second call: prisma.book.update
updateAvailability_update(r) ==
  /\ reqs[r].op \in {"checkoutBook_part012", "returnBook_part012"}
  /\ reqs[r].pc = "availWrite"
  /\ IF reqs[r].bookId \notin DOMAIN books
     THEN /\ finish(r, "StoreError")
          /\ UNCHANGED books
     ELSE /\ books' = [books EXCEPT ![reqs[r].bookId].availableQuantity = reqs[r].seen]
          /\ finish(r, "ok")
  /\ UNCHANGED <<borrowers, borrowings, nextBookId, nextBorrowerId,
                 nextBorrowingId, now, last, listing>>

\* BookService.deleteBook: bookRepository.findById
deleteBook_findById(r, id) ==
  /\ reqs[r] = Idle
  /\ reqs' = [reqs EXCEPT ![r] =
       IF id \notin DOMAIN books
       THEN [request("deleteBook", "done", 0, id, 0, 0) EXCEPT !.result = "BookNotFound"]
       ELSE request("deleteBook", "findByBook", 0, id, 0, 0)]
  /\ UNCHANGED <<books, borrowers, borrowings, nextBookId, nextBorrowerId,
                 nextBorrowingId, now, last, listing>>

\* BookService.deleteBook: borrowingRepository.findByBook, the guard
deleteBook_findByBook(r) ==
  /\ at(r, "deleteBook", "findByBook")
  /\ IF findByBookActive(borrowings, reqs[r].bookId) # {}
     THEN finish(r, "HasActiveBorrowings")
     ELSE goto(r, "delete")
  /\ UNCHANGED <<books, borrowers, borrowings, nextBookId, nextBorrowerId,
                 nextBorrowingId, now, last, listing>>

\* BookService.deleteBook: bookRepository.delete
deleteBook_delete(r) ==
  /\ at(r, "deleteBook", "delete")
  /\ IF reqs[r].bookId \notin DOMAIN books
     THEN finish(r, "notDeleted") /\ UNCHANGED books
     ELSE IF restrictsBookDelete(borrowings, reqs[r].bookId)
     THEN finish(r, "StoreError") /\ UNCHANGED books
     ELSE finish(r, "ok") /\ books' = without(books, reqs[r].bookId)
  /\ UNCHANGED <<borrowers, borrowings, nextBookId, nextBorrowerId,
                 nextBorrowingId, now, last, listing>>

\* BorrowerService.deleteBorrower: borrowerRepository.findById
deleteBorrower_findById(r, id) ==
  /\ reqs[r] = Idle
  /\ reqs' = [reqs EXCEPT ![r] =
       IF id \notin DOMAIN borrowers
       THEN [request("deleteBorrower", "done", id, 0, 0, 0)
               EXCEPT !.result = "BorrowerNotFound"]
       ELSE request("deleteBorrower", "findByBorrower", id, 0, 0, 0)]
  /\ UNCHANGED <<books, borrowers, borrowings, nextBookId, nextBorrowerId,
                 nextBorrowingId, now, last, listing>>

\* BorrowerService.deleteBorrower: borrowingRepository.findByBorrower, the guard
deleteBorrower_findByBorrower(r) ==
  /\ at(r, "deleteBorrower", "findByBorrower")
  /\ IF findByBorrowerActive(borrowings, reqs[r].borrowerId) # {}
     THEN finish(r, "HasActiveBorrowings")
     ELSE goto(r, "delete")
  /\ UNCHANGED <<books, borrowers, borrowings, nextBookId, nextBorrowerId,
                 nextBorrowingId, now, last, listing>>

\* BorrowerService.deleteBorrower: borrowerRepository.delete
deleteBorrower_delete(r) ==
  /\ at(r, "deleteBorrower", "delete")
  /\ IF reqs[r].borrowerId \notin DOMAIN borrowers
     THEN finish(r, "notDeleted") /\ UNCHANGED borrowers
     ELSE IF restrictsBorrowerDelete(borrowings, reqs[r].borrowerId)
     THEN finish(r, "StoreError") /\ UNCHANGED borrowers
     ELSE finish(r, "ok") /\ borrowers' = without(borrowers, reqs[r].borrowerId)
  /\ UNCHANGED <<books, borrowings, nextBookId, nextBorrowerId,
                 nextBorrowingId, now, last, listing>>

\* the response leaves; the slot is free again
respond(r) ==
  /\ reqs[r].pc = "done"
  /\ reqs' = [reqs EXCEPT ![r] = Idle]
  /\ UNCHANGED <<books, borrowers, borrowings, nextBookId, nextBorrowerId,
                 nextBorrowingId, now, last, listing>>

NextConc ==
  \/ \E r \in Slots, b \in BorrowerIds, k \in BookIds :
       checkoutBook_part012_findBorrower(r, b, k)
  \/ \E r \in Slots : checkoutBook_part012_findBook(r)
  \/ \E r \in Slots : checkoutBook_part012_findByBook(r)
  \/ \E r \in Slots : checkoutBook_part012_create(r)
  \/ \E r \in Slots, i \in BorrowingIds : returnBook_part012_findById(r, i)
  \/ \E r \in Slots : returnBook_part012_update(r)
  \/ \E r \in Slots : updateAvailability_findUnique(r)
  \/ \E r \in Slots : updateAvailability_update(r)
  \/ \E r \in Slots, k \in BookIds : deleteBook_findById(r, k)
  \/ \E r \in Slots : deleteBook_findByBook(r)
  \/ \E r \in Slots : deleteBook_delete(r)
  \/ \E r \in Slots, b \in BorrowerIds : deleteBorrower_findById(r, b)
  \/ \E r \in Slots : deleteBorrower_findByBorrower(r)
  \/ \E r \in Slots : deleteBorrower_delete(r)
  \/ \E r \in Slots : respond(r)

SpecConc == InitConc /\ [][NextConc]_vars

\* ---- properties of SpecConc -------------------------------------------------

\* C4: under any interleaving of checkout requests, no book has more active
\* borrowings than its totalQuantity.
C4_ActiveNeverExceedsTotal ==
  \A k \in DOMAIN books : activeCount(k) <= books[k].totalQuantity

\* C10: under any interleaving of delete and checkout requests, the book and
\* the borrower of every active borrowing are present.
C10_ActiveBorrowingKeepsItsRows ==
  \A i \in DOMAIN borrowings :
    borrowings[i].returnDate = Null =>
      /\ borrowings[i].bookId \in DOMAIN books
      /\ borrowings[i].borrowerId \in DOMAIN borrowers

C10_Witness ==
  \E r \in Slots :
    /\ reqs[r].op = "deleteBook"
    /\ reqs[r].result = "StoreError"
    /\ findByBookActive(borrowings, reqs[r].bookId) # {}

\* C26: of two return requests for the same active borrowing that run
\* concurrently at most one succeeds and the returnDate is written at most
\* once; the other request fails with 'already returned'.
C26_ConcurrentReturnOnce ==
  /\ [](\A r1, r2 \in Slots :
          (/\ r1 # r2
           /\ reqs[r1].op = "returnBook_part012"
           /\ reqs[r2].op = "returnBook_part012"
           /\ reqs[r1].borrowingId = reqs[r2].borrowingId
           /\ reqs[r1].result = "ok")
          => reqs[r2].result \in {"none", "AlreadyReturned"})
  /\ [][\A r \in Slots :
          (at(r, "returnBook_part012", "update") /\ reqs'[r].pc # "update")
          => borrowings[reqs[r].borrowingId].returnDate = Null]_vars

\* ---- SpecEmail: registrations and updates, one store call at a time ----------

\* borrowers_email_key without effect
violatesEmailKey_off(table, id, email) == FALSE

\* CREATE UNIQUE INDEX "borrowers_email_key" ON "borrowers"("email"): writing
\* email into row id (0: a new row) meets another row that holds it (P2002)
violatesEmailKey(table, id, email) ==
  \E b \in DOMAIN table \ {id} : table[b].email = email

InitEmail ==
  /\ books = <<>>
  /\ borrowers = <<>>
  /\ borrowings = <<>>
  /\ nextBookId = 1
  /\ nextBorrowerId = 1
  /\ nextBorrowingId = 1
  /\ now = 0
  /\ last = [op |-> "none", result |-> "none", pre |-> 0]
  /\ reqs = [r \in Slots |-> Idle]
  /\ listing = NoListing

\* BorrowerService.registerBorrower: _validateBorrowerData, then
\* borrowerRepository.findByEmail(borrowerData.email); seen holds borrowerData
registerBorrower_findByEmail(r, email) ==
  /\ reqs[r].op = "idle"
  /\ LET q == request("registerBorrower", "create", 0, 0, 0, [email |-> email]) IN
     reqs' = [reqs EXCEPT ![r] =
       IF ~isValidEmail(email)
         THEN [q EXCEPT !.pc = "done", !.result = "ValidationError"]
       ELSE IF \E b \in DOMAIN borrowers : borrowers[b].email = normalizeEmail(email)
         THEN [q EXCEPT !.pc = "done", !.result = "DuplicateKey"]
       ELSE q]
  /\ UNCHANGED <<books, borrowers, borrowings, nextBookId, nextBorrowerId,
                 nextBorrowingId, now, last, listing>>

\* BorrowerRepository.create: prisma.borrower.create with the normalised
\* email; P2002 on email is rethrown as "Email already exists"
registerBorrower_create(r) ==
  /\ at(r, "registerBorrower", "create")
  /\ LET email == normalizeEmail(reqs[r].seen.email) IN
     IF violatesEmailKey(borrowers, 0, email)
       THEN finish(r, "DuplicateKey") /\ UNCHANGED <<borrowers, nextBorrowerId>>
       ELSE /\ nextBorrowerId <= MaxRegistered
            /\ finish(r, "ok")
            /\ borrowers' = borrowers @@ (nextBorrowerId :> [email |-> email])
            /\ nextBorrowerId' = nextBorrowerId + 1
  /\ UNCHANGED <<books, borrowings, nextBookId, nextBorrowingId, now, last, listing>>

\* BorrowerService.updateBorrower: borrowerRepository.findById(id), then
\* _validateBorrowerData(updateData, false); seen holds updateData
updateBorrower_findById(r, id, updateData) ==
  /\ reqs[r].op = "idle"
  /\ LET q == request("updateBorrower", "update", id, 0, 0, updateData) IN
     reqs' = [reqs EXCEPT ![r] =
       IF id \notin DOMAIN borrowers
         THEN [q EXCEPT !.pc = "done", !.result = "BorrowerNotFound"]
       ELSE IF "email" \in DOMAIN updateData /\ ~isValidEmail(updateData.email)
         THEN [q EXCEPT !.pc = "done", !.result = "ValidationError"]
       ELSE IF "email" \in DOMAIN updateData /\ updateData.email # borrowers[id].email
         THEN [q EXCEPT !.pc = "emailExists"]
       ELSE q]
  /\ UNCHANGED <<books, borrowers, borrowings, nextBookId, nextBorrowerId,
                 nextBorrowingId, now, last, listing>>

\* borrowerRepository.emailExists(updateData.email, id)
updateBorrower_emailExists(r) ==
  /\ at(r, "updateBorrower", "emailExists")
  /\ IF \E b \in DOMAIN borrowers \ {reqs[r].borrowerId} :
          borrowers[b].email = normalizeEmail(reqs[r].seen.email)
       THEN finish(r, "DuplicateKey")
       ELSE goto(r, "update")
  /\ UNCHANGED <<books, borrowers, borrowings, nextBookId, nextBorrowerId,
                 nextBorrowingId, now, last, listing>>

\* BorrowerRepository.update: prisma.borrower.update with name and the
\* normalised email; P2025 gives null, P2002 on email "Email already exists"
updateBorrower_update(r) ==
  /\ at(r, "updateBorrower", "update")
  /\ LET id == reqs[r].borrowerId
         updateData == reqs[r].seen IN
     IF id \notin DOMAIN borrowers
       THEN finish(r, "null") /\ UNCHANGED borrowers
     ELSE IF "email" \notin DOMAIN updateData
       THEN finish(r, "ok") /\ UNCHANGED borrowers
     ELSE IF violatesEmailKey(borrowers, id, normalizeEmail(updateData.email))
       THEN finish(r, "DuplicateKey") /\ UNCHANGED borrowers
     ELSE /\ finish(r, "ok")
          /\ borrowers' = [borrowers EXCEPT ![id].email = normalizeEmail(updateData.email)]
  /\ UNCHANGED <<books, borrowings, nextBookId, nextBorrowerId, nextBorrowingId,
                 now, last, listing>>

NextEmail ==
  \/ \E r \in Slots, e \in Emails : registerBorrower_findByEmail(r, e)
  \/ \E r \in Slots : registerBorrower_create(r)
  \/ \E r \in Slots, id \in 0 .. MaxRegistered, d \in BorrowerUpdateInputs :
       updateBorrower_findById(r, id, d)
  \/ \E r \in Slots : updateBorrower_emailExists(r)
  \/ \E r \in Slots : updateBorrower_update(r)
  \/ \E r \in Slots : respond(r)

SpecEmail == InitEmail /\ [][NextEmail]_vars

\* ---- properties of SpecEmail --------------------------------------------------

\* lowercase of a stored or requested email
lowercased(e) == IF e = "A@x.io" THEN "a@x.io" ELSE e

\* C25: after any registrations and updates, concurrent ones included, no
\* two borrowers have the same email once lowercased; a registration or an
\* update whose email collides with another borrower's is rejected as a
\* duplicate and writes nothing.
C25_EmailsUnique ==
  /\ [](\A b1, b2 \in DOMAIN borrowers :
          b1 # b2 => lowercased(borrowers[b1].email) # lowercased(borrowers[b2].email))
  /\ [][\A r \in Slots :
          (/\ reqs[r].pc # "done"
           /\ reqs'[r].pc = "done"
           /\ reqs'[r].op \in {"registerBorrower", "updateBorrower"}
           /\ reqs'[r].result \notin {"BorrowerNotFound", "ValidationError", "null"}
           /\ "email" \in DOMAIN reqs'[r].seen
           /\ \E b \in DOMAIN borrowers \ {reqs'[r].borrowerId} :
                lowercased(borrowers[b].email) = lowercased(reqs'[r].seen.email))
          => /\ reqs'[r].result = "DuplicateKey"
             /\ borrowers' = borrowers]_vars

C25_Witness ==
  \E r1, r2 \in Slots :
    /\ reqs[r1].op = "registerBorrower"
    /\ reqs[r1].result = "ok"
    /\ reqs[r2].op = "registerBorrower"
    /\ reqs[r2].result = "DuplicateKey"
    /\ reqs[r1].seen.email # reqs[r2].seen.email
    /\ lowercased(reqs[r1].seen.email) = lowercased(reqs[r2].seen.email)
    /\ Cardinality(DOMAIN borrowers) = 1

\* ---- SpecQuery: the listings ------------------------------------------------

\* options.asOfDate (Null: not given), options.limit and options.offset
\* (0: not given)
AsOfDates == {Null} \cup (LOAN_PERIOD_DAYS .. LOAN_PERIOD_DAYS + MaxDay + 1)
Limits == 0 .. MaxBorrowings
Offsets == 0 .. MaxBorrowings

\* findOverdue where clause with dueDate <= asOfDate
overdueFilter_lte(ledger, asOfDate) ==
  {i \in DOMAIN ledger : ledger[i].returnDate = Null /\ ledger[i].dueDate <= asOfDate}

\* findOverdue where clause without returnDate: null
overdueFilter_anyReturnDate(ledger, asOfDate) ==
  {i \in DOMAIN ledger : ledger[i].dueDate < asOfDate}

\* BorrowingRepository.findOverdue, where: {returnDate: null, dueDate: {lt: asOfDate}}
overdueFilter(ledger, asOfDate) ==
  {i \in DOMAIN ledger : ledger[i].returnDate = Null /\ ledger[i].dueDate < asOfDate}

\* orderBy: {dueDate: "asc"}: every order of the rows that ascends in dueDate
\* (the store fixes no order among equal dueDates)
orderByDueDate(ledger, rows) ==
  {sq \in [1 .. Cardinality(rows) -> rows] :
     \A m, n \in 1 .. Cardinality(rows) :
       m < n => /\ sq[m] # sq[n]
                /\ ledger[sq[m]].dueDate <= ledger[sq[n]].dueDate}

\* take: options.limit and skip: options.offset, each only when truthy
page(sq, limit, offset) ==
  SubSeq(sq, offset + 1, IF limit = 0 THEN Len(sq) ELSE Min(Len(sq), offset + limit))

\* BorrowingRepository.findOverdue(options): the results the query can give
findOverdue(ledger, asOfDate, limit, offset) ==
  {page(sq, limit, offset) : sq \in orderByDueDate(ledger, overdueFilter(ledger, asOfDate))}

\* the tables after createBook for every book id and registerBorrower for
\* the first borrowers, nothing borrowed yet
InitQuery ==
  /\ books \in [1 .. MaxBooks ->
                  {[totalQuantity |-> q, availableQuantity |-> q] : q \in 1 .. MaxQty}]
  /\ borrowers = [b \in 1 .. Min(MaxBorrowers, 2) |->
                    [email |-> IF b = 1 THEN "a@x.io" ELSE "b@x.io"]]
  /\ borrowings = <<>>
  /\ nextBookId = MaxBooks + 1
  /\ nextBorrowerId = Min(MaxBorrowers, 2) + 1
  /\ nextBorrowingId = 1
  /\ now = 0
  /\ last = [op |-> "registerBorrower", result |-> "ok", pre |-> 0]
  /\ reqs = <<>>
  /\ listing = NoListing

\* BorrowingService.getOverdueBooks(options): asOfDate defaults to new Date()
getOverdueBooks(asOfDate, limit, offset) ==
  LET asOf == IF asOfDate = Null THEN now ELSE asOfDate IN
  /\ \E rows \in findOverdue(borrowings, asOf, limit, offset) :
       listing' = [asOfDate |-> asOf, limit |-> limit, offset |-> offset, rows |-> rows]
  /\ answer("getOverdueBooks", "ok")
  /\ UNCHANGED <<books, borrowers, borrowings, nextBookId, nextBorrowerId,
                 nextBorrowingId, now, reqs>>

\* BorrowingController.getOverdueBooks: the meta object of the response for
\* the page overdueBooks; limit and offset are the query parameters (0: absent)
getOverdueBooks_meta(overdueBooks, limit, offset) ==
  [total |-> Len(overdueBooks),
   limit |-> IF limit = 0 THEN DEFAULT_LIMIT ELSE limit,
   offset |-> offset,
   hasNext |-> Len(overdueBooks) = (IF limit = 0 THEN DEFAULT_LIMIT ELSE limit),
   hasPrevious |-> offset > 0]

\* GET /api/borrowings/overdue: the controller passes limit and offset to the
\* service, never an asOfDate, and answers the page and its meta
BorrowingController_getOverdueBooks(limit, offset) ==
  /\ \E rows \in findOverdue(borrowings, now, limit, offset) :
       /\ listing' = [asOfDate |-> now, limit |-> limit, offset |-> offset,
                      rows |-> rows]
       /\ answer("GET /api/borrowings/overdue", getOverdueBooks_meta(rows, limit, offset))
  /\ UNCHANGED <<books, borrowers, borrowings, nextBookId, nextBorrowerId,
                 nextBorrowingId, now, reqs>>

\* a whole loan period passes between two requests (once, after the last Tick)
TickLoanPeriod ==
  /\ now = MaxDay
  /\ now' = now + LOAN_PERIOD_DAYS
  /\ UNCHANGED <<books, borrowers, borrowings, nextBookId, nextBorrowerId,
                 nextBorrowingId, last, reqs, listing>>

NextQuery ==
  \/ \E b \in BorrowerIds, k \in BookIds : checkoutBook_part012(b, k)
  \/ \E i \in BorrowingIds : returnBook_part012(i)
  \/ Tick
  \/ \E a \in AsOfDates, l \in Limits, o \in Offsets : getOverdueBooks(a, l, o)

SpecQuery == InitQuery /\ [][NextQuery]_vars

\* ---- properties of SpecQuery --------------------------------------------------

\* C20: without limit and offset, the overdue listing for asOfDate holds
\* exactly the borrowings with returnDate null and dueDate < asOfDate, each
\* once, in ascending dueDate order.
C20_OverdueListing ==
  [][(last'.op = "getOverdueBooks" /\ listing'.limit = 0 /\ listing'.offset = 0) =>
       LET rows == listing'.rows IN
       /\ {rows[n] : n \in 1 .. Len(rows)} =
            {i \in DOMAIN borrowings :
               borrowings[i].returnDate = Null /\ borrowings[i].dueDate < listing'.asOfDate}
       /\ \A m, n \in 1 .. Len(rows) :
            m < n => /\ rows[m] # rows[n]
                     /\ borrowings[rows[m]].dueDate <= borrowings[rows[n]].dueDate]_vars

C20_Witness ==
  /\ last.op = "getOverdueBooks"
  /\ listing.limit = 0
  /\ listing.offset = 0
  /\ Len(listing.rows) = 2
  /\ borrowings[listing.rows[1]].dueDate < borrowings[listing.rows[2]].dueDate
  /\ listing.asOfDate = borrowings[listing.rows[2]].dueDate + 1

\* C21: a borrowing that has been returned is in no overdue listing taken
\* afterwards, whatever asOfDate, limit and offset the query uses and however
\* long before asOfDate its dueDate lies.
C21_ReturnedNeverListed ==
  [][last'.op = "getOverdueBooks" =>
       \A n \in 1 .. Len(listing'.rows) :
         borrowings'[listing'.rows[n]].returnDate = Null]_vars

C21_Witness ==
  /\ last.op = "getOverdueBooks"
  /\ listing.limit = 0
  /\ listing.offset = 0
  /\ \E i \in DOMAIN borrowings :
       /\ borrowings[i].returnDate # Null
       /\ borrowings[i].dueDate + 1 < listing.asOfDate
       /\ \A n \in 1 .. Len(listing.rows) : listing.rows[n] # i

\* ---- SpecHttp: the overdue listing as the route answers it -------------------
NextHttp ==
  \/ \E b \in BorrowerIds, k \in BookIds : checkoutBook_part012(b, k)
  \/ \E i \in BorrowingIds : returnBook_part012(i)
  \/ Tick
  \/ TickLoanPeriod
  \/ \E l \in Limits, o \in Offsets : BorrowingController_getOverdueBooks(l, o)

SpecHttp == InitQuery /\ [][NextHttp]_vars

\* C23: the meta of the overdue listing reports total as the number of all
\* overdue borrowings (not the length of the page), hasNext as
\* offset + limit < total and hasPrevious as offset > 0.
C23_PaginationMeta ==
  [][last'.op = "GET /api/borrowings/overdue" =>
       LET meta == last'.result
           total == Cardinality(overdueFilter(borrowings', listing'.asOfDate)) IN
       /\ meta.total = total
       /\ meta.hasNext = (meta.offset + meta.limit < total)
       /\ meta.hasPrevious = (meta.offset > 0)]_vars

\* ---- SpecFault: the store can throw -------------------------------------------

\* the store calls of part_012 checkoutBook, in the order it makes them
StoreCalls ==
  <<"borrowerRepository.findById", "bookRepository.findById",
    "borrowingRepository.findByBook", "borrowingRepository.create",
    "bookRepository.updateAvailability">>

\* the check of checkoutBook that precedes store call n fails with one of these
rejectedBefore(n) ==
  CASE n = 1 -> {"ValidationError"}
    [] n = 2 -> {"ValidationError", "BorrowerNotFound"}
    [] n = 3 -> {"ValidationError", "BorrowerNotFound", "BookNotFound"}
    [] OTHER -> CheckoutRejections

\* part_012 checkoutBook when its store call n throws: the catch block logs
\* and rethrows; what the calls before n wrote stays written
checkoutBook_part012_storeError(borrowerId, bookId, n) ==
  /\ checkoutBookCheck_part012(borrowerId, bookId) \notin rejectedBefore(n)
  /\ answer("checkoutBook_part012", "StoreError")
  /\ IF StoreCalls[n] = "bookRepository.updateAvailability"
     THEN /\ nextBorrowingId <= MaxBorrowings
          /\ borrowings' = borrowings @@
                 (nextBorrowingId :> newBorrowing(borrowerId, bookId, now))
          /\ nextBorrowingId' = nextBorrowingId + 1
     ELSE UNCHANGED <<borrowings, nextBorrowingId>>
  /\ UNCHANGED <<books, borrowers, nextBookId, nextBorrowerId, now, reqs, listing>>

NextFault ==
  \/ \E b \in BorrowerIds, k \in BookIds : checkoutBook_part012(b, k)
  \/ \E i \in BorrowingIds : returnBook_part012(i)
  \/ \E b \in BorrowerIds, k \in BookIds, n \in DOMAIN StoreCalls :
       checkoutBook_part012_storeError(b, k, n)
  \/ Tick

SpecFault == InitQuery /\ [][NextFault]_vars

\* ---- properties of SpecFault --------------------------------------------------

\* C27: checkout is all-or-nothing: whenever it reports a failure, a store
\* error while the availability is updated after the ledger write included,
\* no new borrowing remains in the ledger.
C27_CheckoutAllOrNothing ==
  [][(last'.op = "checkoutBook_part012" /\ last'.result # "ok"
        /\ \E b \in BorrowerIds, k \in BookIds :
             \/ checkoutBook_part012(b, k)
             \/ \E n \in DOMAIN StoreCalls : checkoutBook_part012_storeError(b, k, n))
       => borrowings' = borrowings]_vars

\* ---- SpecSeed: the seeder -----------------------------------------------------

\* Seeder.getSampleBooks (the same in both generations): The Great Gatsby,
\* To Kill a Mockingbird, 1984, Pride and Prejudice, The Catcher in the Rye
getSampleBooks ==
  <<[totalQuantity |-> 5, availableQuantity |-> 5],
    [totalQuantity |-> 3, availableQuantity |-> 3],
    [totalQuantity |-> 4, availableQuantity |-> 4],
    [totalQuantity |-> 2, availableQuantity |-> 2],
    [totalQuantity |-> 3, availableQuantity |-> 2]>>

\* Seeder.getSampleBorrowers
getSampleBorrowers ==
  <<[email |-> "john.doe@email.com"], [email |-> "jane.smith@email.com"],
    [email |-> "bob.johnson@email.com"], [email |-> "alice.brown@email.com"]>>

\* Seeder.getSampleBorrowings, seeder.js 87-121: pastDate = today - 20,
\* futureDate = today + 10, overdueDate = today - 5; the dates of January
\* 2024 lie some 600 days before the first day of the model
getSampleBorrowings_winston(today) ==
  <<[borrowerId |-> 1, bookId |-> 5, checkoutDate |-> today - 20,
     dueDate |-> today + 10, returnDate |-> Null],
    [borrowerId |-> 2, bookId |-> 1, checkoutDate |-> -614,
     dueDate |-> -600, returnDate |-> -601],
    [borrowerId |-> 3, bookId |-> 2, checkoutDate |-> today - 20,
     dueDate |-> today - 5, returnDate |-> Null]>>

\* Seeder.getSampleBorrowings, seeder.js 313-398: two more rows dated in the
\* last month (taken here as a month of 30 days seen from its successor's
\* 15th: the 5th is today - 40, the 2nd today - 43, the 28th today - 17)
getSampleBorrowings(today) ==
  getSampleBorrowings_winston(today) \o
  <<[borrowerId |-> 4, bookId |-> 3, checkoutDate |-> today - 40,
     dueDate |-> today - 26, returnDate |-> today - 30],
    [borrowerId |-> 1, bookId |-> 4, checkoutDate |-> today - 43,
     dueDate |-> today - 17, returnDate |-> Null]>>

\* seedBooks / seedBorrowers: upsert with update: {} keyed by isbn / email;
\* the tables of SpecSeed hold the sample rows or nothing
seedUpsert(table, sample) == IF DOMAIN table = {} THEN sample ELSE table

\* seedBorrowings: prisma.borrowing.deleteMany({}), then create for each
\* sample row; the ids go on from the sequence
seedBorrowings(sample) ==
  /\ nextBorrowingId + Len(sample) - 1 <= MaxSeedRows
  /\ borrowings' = [i \in nextBorrowingId .. nextBorrowingId + Len(sample) - 1 |->
                      sample[i - nextBorrowingId + 1]]
  /\ nextBorrowingId' = nextBorrowingId + Len(sample)

\* Seeder.seedAll, seeder.js 190-203
seedAll_winston ==
  /\ books' = seedUpsert(books, getSampleBooks)
  /\ borrowers' = seedUpsert(borrowers, getSampleBorrowers)
  /\ seedBorrowings(getSampleBorrowings_winston(now))
  /\ answer("seedAll", "ok")
  /\ UNCHANGED <<nextBookId, nextBorrowerId, now, reqs, listing>>

\* Seeder.seedAll, seeder.js 467-480
seedAll ==
  /\ books' = seedUpsert(books, getSampleBooks)
  /\ borrowers' = seedUpsert(borrowers, getSampleBorrowers)
  /\ seedBorrowings(getSampleBorrowings(now))
  /\ answer("seedAll", "ok")
  /\ UNCHANGED <<nextBookId, nextBorrowerId, now, reqs, listing>>

NextSeed ==
  \/ seedAll_winston
  \/ seedAll
  \/ \E i \in 0 .. MaxSeedRows : returnBook_part012(i)
  \/ Tick

SpecSeed == Init /\ [][NextSeed]_vars

\* ---- properties of SpecSeed ---------------------------------------------------

\* C29: immediately after seedAll every seeded book's availableQuantity is
\* its totalQuantity minus the number of its seeded borrowings with
\* returnDate null; To Kill a Mockingbird (book 2) is 2 of 3 with one overdue
\* loan.
C29_SeedIsConsistent ==
  [][last'.op = "seedAll" =>
       \A k \in DOMAIN books' :
         books'[k].availableQuantity =
           books'[k].totalQuantity
             - Cardinality({i \in DOMAIN borrowings' :
                              /\ borrowings'[i].bookId = k
                              /\ borrowings'[i].returnDate = Null})]_vars

\* ---- SpecCan: canCheckoutBook -------------------------------------------------

\* what findById answers for an id: for the number 0 no row (null), for
\* undefined, null or NaN the store client rejects the query and the service
\* rethrows
findByIdOfMissing(notFound) == {notFound, "StoreError"}

\* BorrowingService.js canCheckoutBook: "ok" is canCheckout = true, any other
\* value the reason (or the error thrown); no check of missing arguments
canCheckoutBookResults(borrowerId, bookId) ==
  IF borrowerId = 0 THEN findByIdOfMissing("BorrowerNotFound")
  ELSE IF borrowerId \notin DOMAIN borrowers THEN {"BorrowerNotFound"}
  ELSE IF bookId = 0 THEN findByIdOfMissing("BookNotFound")
  ELSE IF bookId \notin DOMAIN books THEN {"BookNotFound"}
  ELSE IF books[bookId].availableQuantity <= 0 THEN {"BookNotAvailable"}
  ELSE {"ok"}

\* part_012 canCheckoutBook: availability from the active borrowings
canCheckoutBookResults_part012(borrowerId, bookId) ==
  IF borrowerId = 0 THEN findByIdOfMissing("BorrowerNotFound")
  ELSE IF borrowerId \notin DOMAIN borrowers THEN {"BorrowerNotFound"}
  ELSE IF bookId = 0 THEN findByIdOfMissing("BookNotFound")
  ELSE IF bookId \notin DOMAIN books THEN {"BookNotFound"}
  ELSE IF books[bookId].totalQuantity
            - Cardinality(findByBookActive(borrowings, bookId)) <= 0
       THEN {"BookNotAvailable"}
  ELSE {"ok"}

canCheckoutBook(borrowerId, bookId) ==
  /\ \E res \in canCheckoutBookResults(borrowerId, bookId) :
       answer("canCheckoutBook", res)
  /\ UNCHANGED <<books, borrowers, borrowings, nextBookId, nextBorrowerId,
                 nextBorrowingId, now, reqs, listing>>

canCheckoutBook_part012(borrowerId, bookId) ==
  /\ \E res \in canCheckoutBookResults_part012(borrowerId, bookId) :
       answer("canCheckoutBook_part012", res)
  /\ UNCHANGED <<books, borrowers, borrowings, nextBookId, nextBorrowerId,
                 nextBorrowingId, now, reqs, listing>>

NextCan ==
  \/ \E q \in Quantities : createBook(q)
  \/ \E e \in Emails : registerBorrower(e)
  \/ \E b \in BorrowerIds, k \in BookIds : checkoutBook(b, k)
  \/ \E b \in BorrowerIds, k \in BookIds : checkoutBook_part012(b, k)
  \/ \E i \in BorrowingIds : returnBook(i)
  \/ \E i \in BorrowingIds : returnBook_part012(i)
  \/ \E b \in BorrowerIds, k \in BookIds : canCheckoutBook(b, k)
  \/ \E b \in BorrowerIds, k \in BookIds : canCheckoutBook_part012(b, k)

SpecCan == Init /\ [][NextCan]_vars

\* ---- properties of SpecCan ----------------------------------------------------

\* C30: with no other operation in flight, canCheckoutBook(borrowerId, bookId)
\* answers canCheckout = true exactly when checkoutBook with the same
\* arguments would succeed, and otherwise its reason is the error checkoutBook
\* would raise (each generation against its own checkoutBook).
C30_CanCheckoutAgrees ==
  [][\A b \in BorrowerIds, k \in BookIds :
       /\ (last'.op = "canCheckoutBook" /\ canCheckoutBook(b, k))
            => last'.result = checkoutBookCheck(b, k)
       /\ (last'.op = "canCheckoutBook_part012" /\ canCheckoutBook_part012(b, k))
            => last'.result = checkoutBookCheck_part012(b, k)]_vars

\* ---- SpecDates: the derived fields of a borrowing ----------------------------
\* Instants are milliseconds (Date.getTime()): the start of a day, one
\* millisecond later and the last millisecond of the day
Instants ==
  {d * MS_PER_DAY + o : d \in {0, 1, MaxOverdueDays}, o \in {0, 1, MS_PER_DAY - 1}}

\* a null / undefined borrowing argument
NoBorrowing ==
  [borrowerId |-> 0, bookId |-> 0, checkoutDate |-> Null, dueDate |-> Null,
   returnDate |-> Null]

\* Borrowing.isOverdue with dueDate <= currentDate
isOverdue_lte(borrowing, currentDate) ==
  IF borrowing = NoBorrowing \/ borrowing.returnDate # Null
    THEN FALSE
    ELSE borrowing.dueDate <= currentDate

\* Borrowing.isOverdue(borrowing, currentDate)
isOverdue(borrowing, currentDate) ==
  IF borrowing = NoBorrowing \/ borrowing.returnDate # Null
    THEN FALSE
    ELSE borrowing.dueDate < currentDate

\* Borrowing.getDaysOverdue with Math.floor
getDaysOverdue_floor(borrowing, currentDate) ==
  IF ~isOverdue(borrowing, currentDate)
    THEN 0
    ELSE (currentDate - borrowing.dueDate) \div MS_PER_DAY

\* Borrowing.getDaysOverdue(borrowing, currentDate): Math.ceil(timeDiff / day),
\* timeDiff > 0 here
getDaysOverdue(borrowing, currentDate) ==
  IF ~isOverdue(borrowing, currentDate)
    THEN 0
    ELSE LET timeDiff == currentDate - borrowing.dueDate IN
         (timeDiff + MS_PER_DAY - 1) \div MS_PER_DAY

\* Borrowing.getStatus(borrowing, currentDate)
getStatus(borrowing, currentDate) ==
  IF borrowing = NoBorrowing THEN "unknown"
  ELSE IF borrowing.returnDate # Null THEN "returned"
  ELSE IF isOverdue(borrowing, currentDate) THEN "overdue"
  ELSE "active"

\* one book, one borrower and one borrowing of it, checked out 14 days before
\* its dueDate and either not returned, returned at once or returned late
InitDates ==
  /\ \E due \in Instants :
     \E ret \in {Null, due - LOAN_PERIOD_DAYS * MS_PER_DAY, due + MS_PER_DAY} :
       /\ borrowings = <<[borrowerId |-> 1, bookId |-> 1,
                          checkoutDate |-> due - LOAN_PERIOD_DAYS * MS_PER_DAY,
                          dueDate |-> due, returnDate |-> ret]>>
       /\ books = <<[totalQuantity |-> 1,
                     availableQuantity |-> IF ret = Null THEN 0 ELSE 1]>>
  /\ borrowers = <<[email |-> "a@x.io"]>>
  /\ nextBookId = 2
  /\ nextBorrowerId = 2
  /\ nextBorrowingId = 2
  /\ now \in Instants
  /\ last = [op |-> "none", result |-> "none", pre |-> 0]
  /\ reqs = <<>>
  /\ listing = NoListing

\* the borrowing argument: row i of the ledger, or null
argBorrowing(i) == IF i \in DOMAIN borrowings THEN borrowings[i] ELSE NoBorrowing

argName(fn, i) == IF i \in DOMAIN borrowings THEN fn ELSE "null"

Borrowing_isOverdue(i) ==
  /\ answer(argName("isOverdue", i), isOverdue(argBorrowing(i), now))
  /\ UNCHANGED <<books, borrowers, borrowings, nextBookId, nextBorrowerId,
                 nextBorrowingId, now, reqs, listing>>

Borrowing_getDaysOverdue(i) ==
  /\ answer(argName("getDaysOverdue", i), getDaysOverdue(argBorrowing(i), now))
  /\ UNCHANGED <<books, borrowers, borrowings, nextBookId, nextBorrowerId,
                 nextBorrowingId, now, reqs, listing>>

Borrowing_getStatus(i) ==
  /\ answer(argName("getStatus", i), getStatus(argBorrowing(i), now))
  /\ UNCHANGED <<books, borrowers, borrowings, nextBookId, nextBorrowerId,
                 nextBorrowingId, now, reqs, listing>>

NextDates ==
  \/ \E i \in 0 .. 1 : Borrowing_isOverdue(i)
  \/ \E i \in 0 .. 1 : Borrowing_getDaysOverdue(i)
  \/ \E i \in 0 .. 1 : Borrowing_getStatus(i)

SpecDates == InitDates /\ [][NextDates]_vars

\* ---- properties of SpecDates --------------------------------------------------

\* C22: for an unreturned borrowing with dueDate < asOfDate, daysOverdue is
\* the least whole number of days (of 86400000 ms) that covers
\* asOfDate - dueDate; for a returned or not yet overdue borrowing it is 0.
\* Ten whole days between dueDate and asOfDate give 10.
C22_DaysOverdue ==
  last.op = "getDaysOverdue" =>
    LET b == borrowings[1]
        diff == now - b.dueDate IN
    IF b.returnDate = Null /\ b.dueDate < now
      THEN /\ last.result * 86400000 >= diff
           /\ (last.result - 1) * 86400000 < diff
           /\ (diff = 10 * 86400000 => last.result = 10)
      ELSE last.result = 0

C22_Witness ==
  /\ last.op = "getDaysOverdue"
  /\ borrowings[1].returnDate = Null
  /\ now - borrowings[1].dueDate = 9 * 86400000 + 1
  /\ last.result = 10

\* C24: the status of a borrowing is "returned" if its returnDate is set,
\* otherwise "overdue" if dueDate < now, otherwise "active"; exactly one of
\* the three holds.
C24_Status ==
  last.op = "getStatus" =>
    LET b == borrowings[1]
        returned == b.returnDate # Null
        overdue == b.returnDate = Null /\ b.dueDate < now
        active == b.returnDate = Null /\ b.dueDate >= now IN
    /\ last.result \in {"returned", "overdue", "active"}
    /\ (last.result = "returned") = returned
    /\ (last.result = "overdue") = overdue
    /\ (last.result = "active") = active
    /\ \/ returned /\ ~overdue /\ ~active
       \/ ~returned /\ overdue /\ ~active
       \/ ~returned /\ ~overdue /\ active

C24_Witness ==
  /\ last.op = "getStatus"
  /\ last.result = "active"
  /\ borrowings[1].dueDate = now

====
